---- MODULE Spec2Model ----
(***************************************************************************)
(* Model of the coffee-shop backend: the bearer-token authorization flow   *)
(* of backend/src/auth/auth.py (get_token_auth_header, verify_decode_jwt,  *)
(* check_permissions, requires_auth) and the protected drink endpoints of  *)
(* backend/src/api.py.                                                     *)
(*                                                                         *)
(* Strings the code inspects character by character (the Authorization     *)
(* header, a recipe text) are sequences of one-character strings; strings  *)
(* the code only compares (error codes, permission names) are TLA+ strings.*)
(***************************************************************************)
EXTENDS Integers, Sequences, FiniteSets, TLC

VARIABLES
    pc,          \* position of the request being served
    route,       \* endpoint the request was routed to
    permission,  \* closure variable of requires_auth for that endpoint
    headers,     \* request.headers
    pres,        \* outcome of get_token_auth_header()
    token,       \* wrapper local: token
    fetch,       \* outcome of urlopen(url, timeout=1) in verify_decode_jwt
    jwks,        \* json.loads(jsonurl.read())['keys']
    jwt,         \* what the bearer token decodes to (signed JSON token)
    vres,        \* outcome of verify_decode_jwt(token)
    payload,     \* wrapper local: payload
    cres,        \* outcome of check_permissions(permission, payload)
    opCalls,     \* number of calls of the protected function f in this request
    opArg,       \* first argument f was called with
    opResult,    \* outcome of f
    ret,         \* outcome of wrapper
    response,    \* HTTP response sent by Flask
    drinks,      \* table Drink: id -> [title, recipe]
    nextId       \* next autoincrement id of table Drink

vars == <<pc, route, permission, headers, pres, token, fetch, jwks, jwt, vres,
          payload, cres, opCalls, opArg, opResult, ret, response, drinks, nextId>>

----------------------------------------------------------------------------
(* Bounds of the model *)

\* Longest Authorization header, in chunks (words and blanks) concatenated.
MaxChunks == 5
\* Longest fetched key set.
MaxKeys == 2
\* Largest permissions collection of a claim set.
MaxPerms == 2
\* Largest id the Drink table hands out.
MaxId == 2

----------------------------------------------------------------------------
(* Outcomes of a call: a returned value or a raised exception *)

Return(v) == [kind |-> "return", value |-> v]

\* raise AuthError(error, status_code)
RaiseAuthError(error, status_code) ==
    [kind |-> "AuthError", error |-> error, status_code |-> status_code]

\* an exception of another class escaping the call
Raise(type) == [kind |-> "exception", type |-> type]

\* flask.abort(code): raises werkzeug's HTTPException for that code
abort(code) == [kind |-> "HTTPException", code |-> code]

\* the call has not happened (yet)
NotCalled == [kind |-> "none"]

----------------------------------------------------------------------------
(* Character strings *)

Whitespace == {" ", "\t"}

\* str.lower() on one character
LowerChar(c) ==
    CASE c = "A" -> "a"
      [] c = "B" -> "b"
      [] c = "E" -> "e"
      [] c = "R" -> "r"
      [] c = "T" -> "t"
      [] OTHER -> c

\* str.lower()
lower(s) == [i \in 1..Len(s) |-> LowerChar(s[i])]

RECURSIVE SplitFrom(_, _, _, _)
SplitFrom(s, i, cur, acc) ==
    LET flushed == IF cur = <<>> THEN acc ELSE Append(acc, cur)
    IN  IF i > Len(s) THEN flushed
        ELSE IF s[i] \in Whitespace THEN SplitFrom(s, i + 1, <<>>, flushed)
        ELSE SplitFrom(s, i + 1, Append(cur, s[i]), acc)

\* str.split(): the maximal runs of non-whitespace characters, in order
split(s) == SplitFrom(s, 1, <<>>, <<>>)

RECURSIVE Concat(_)
Concat(ss) == IF ss = <<>> THEN <<>> ELSE Head(ss) \o Concat(Tail(ss))

bearer == <<"b", "e", "a", "r", "e", "r">>

----------------------------------------------------------------------------
(* Requests *)

\* Pieces an Authorization header value is put together from.
Chunks ==
    { <<" ">>,
      bearer,
      <<"B", "E", "a", "r", "e", "r">>,
      <<"B", "a", "s", "i", "c">>,
      <<"T", "k">> }

RECURSIVE ChunkSeqs(_)
ChunkSeqs(n) ==
    IF n = 0 THEN {<<>>}
    ELSE LET shorter == ChunkSeqs(n - 1)
         IN  shorter \cup {Append(q, c) : q \in {x \in shorter : Len(x) = n - 1}, c \in Chunks}

\* Header values of at most MaxChunks chunks, the empty value included.
HeaderValues == {Concat(q) : q \in ChunkSeqs(MaxChunks)}

NoAuthorization == [Host |-> "localhost"]
WithAuthorization(v) == [Host |-> "localhost", Authorization |-> v]

\* request.headers of every request the parser is checked on
AllHeaders == {NoAuthorization} \cup {WithAuthorization(v) : v \in HeaderValues}

----------------------------------------------------------------------------
(* auth.py: get_token_auth_header *)

get_token_auth_header(hs) ==
    IF "Authorization" \notin DOMAIN hs \/ hs.Authorization = <<>>
    THEN RaiseAuthError([code |-> "authorization_header_missing",
                         description |-> "Auhtorization header is expected"], 401)
    ELSE LET parts == split(hs.Authorization)
         IN  IF parts = <<>> THEN Raise("IndexError")
             ELSE IF lower(parts[1]) # bearer
             THEN RaiseAuthError([code |-> "Invalid_header",
                                  description |-> "Authorization header must start with \"Bearer\"."], 401)
             ELSE IF Len(parts) = 1
             THEN RaiseAuthError([code |-> "invalid_header",
                                  description |-> "Token not found"], 401)
             ELSE IF Len(parts) > 2
             THEN RaiseAuthError([code |-> "Invalid_header",
                                  description |-> "It must be a bearer token"], 401)
             ELSE Return(parts[2])

----------------------------------------------------------------------------
(* auth.py: module constants *)

AUTH0_DOMAIN == "coffeeshopbo.us.auth0.com"
ALGORITHMS == {"RS256"}
API_AUDIENCE == "drink"

\* issuer='https://' + AUTH0_DOMAIN + '/'
Issuer == "https://" \o AUTH0_DOMAIN \o "/"

----------------------------------------------------------------------------
(* Signed tokens and key sets, as jose and the discovery URL see them *)

Kids == {"k1", "k2"}
\* RSA moduli: a signature made with the private key of modulus n verifies
\* under a public key exactly when that key's n is the same.
Moduli == {"n1", "n2"}

\* one element of the 'keys' array of the discovery document
Jwk(kid, n) == [kty |-> "RSA", kid |-> kid, use |-> "sig", n |-> n, e |-> "AQAB"]
Jwks == {Jwk(k, n) : k \in Kids, n \in Moduli}

RECURSIVE KeySeqs(_)
KeySeqs(len) ==
    IF len = 0 THEN {<<>>}
    ELSE LET shorter == KeySeqs(len - 1)
         IN  shorter \cup {Append(q, k) : q \in {x \in shorter : Len(x) = len - 1}, k \in Jwks}

\* the key sets the discovery URL may serve
KeySets == KeySeqs(MaxKeys)

\* permission strings a token may carry; the first four are the ones api.py asks for
PermissionNames ==
    {"get:drinks-detail", "post:drinks", "patch:drinks", "delete:drinks", ""}
PermissionSets == {P \in SUBSET PermissionNames : Cardinality(P) <= MaxPerms}

Audiences == {API_AUDIENCE, "other-api"}
Issuers == {Issuer, "https://elsewhere.example/"}
\* the exp claim against the clock at the time of the request
Expiries == {"future", "past"}

\* decoded token bodies, with and without a permissions entry
ClaimSets ==
    [aud : Audiences, iss : Issuers, exp : Expiries]
        \cup [aud : Audiences, iss : Issuers, exp : Expiries, permissions : PermissionSets]

\* a body segment that is not a JSON object
MalformedClaims == [malformed |-> TRUE]

\* decoded token headers, with and without a kid
JoseHeaders == [alg : {"RS256", "HS256"}] \cup [alg : {"RS256", "HS256"}, kid : Kids]

\* a bearer string whose header segment cannot be decoded
UndecodableToken == [headerOk |-> FALSE]

\* what a bearer string decodes to
Tokens ==
    {UndecodableToken}
        \cup [headerOk : {TRUE}, header : JoseHeaders, signer : Moduli,
              claims : ClaimSets \cup {MalformedClaims}]

\* outcomes of urlopen(url, timeout=1)
FetchFailures == {"timeout", "URLError"}

\* jose.jwt.get_unverified_header(token)
get_unverified_header(tok) ==
    IF tok.headerOk THEN Return(tok.header) ELSE Raise("JWTError")

\* jose.jwt.decode(token, key, algorithms=, audience=, issuer=): the signature
\* first, then the body, then exp, aud and iss in that order
jwt_decode(tok, key, algorithms, audience, issuer) ==
    IF tok.header.alg \notin algorithms THEN Raise("JWTError")
    ELSE IF tok.signer # key.n THEN Raise("JWTError")
    ELSE IF tok.claims = MalformedClaims THEN Raise("JWTError")
    ELSE IF tok.claims.exp = "past" THEN Raise("ExpiredSignatureError")
    ELSE IF tok.claims.aud # audience THEN Raise("JWTClaimsError")
    ELSE IF tok.claims.iss # issuer THEN Raise("JWTClaimsError")
    ELSE Return(tok.claims)

----------------------------------------------------------------------------
(* auth.py: verify_decode_jwt *)

\* rsa_key = {}
EmptyDict == [nothing \in {} |-> TRUE]

RECURSIVE ScanKeys(_, _, _, _)
ScanKeys(keys, i, kid, rsa_key) ==
    IF i > Len(keys) THEN rsa_key
    ELSE ScanKeys(keys, i + 1, kid,
                  IF keys[i].kid = kid
                  THEN [kty |-> keys[i].kty, kid |-> keys[i].kid, use |-> keys[i].use,
                        n |-> keys[i].n, e |-> keys[i].e]
                  ELSE rsa_key)

RECURSIVE ScanKeysUntilMatch(_, _, _)
ScanKeysUntilMatch(keys, i, kid) ==
    IF i > Len(keys) THEN EmptyDict
    ELSE IF keys[i].kid = kid
    THEN [kty |-> keys[i].kty, kid |-> keys[i].kid, use |-> keys[i].use,
          n |-> keys[i].n, e |-> keys[i].e]
    ELSE ScanKeysUntilMatch(keys, i + 1, kid)

\* SelectKey with a break after the first match
SelectKey_first_match(keys, kid) == ScanKeysUntilMatch(keys, 1, kid)

\* for key in jwks['keys']: if key['kid'] == unverified_header['kid']: rsa_key = {...}
SelectKey(keys, kid) == ScanKeys(keys, 1, kid, EmptyDict)

\* the try/except around jwt.decode
DecodeWithKey(tok, rsa_key) ==
    LET r == jwt_decode(tok, rsa_key, ALGORITHMS, API_AUDIENCE, Issuer)
    IN  IF r.kind = "return" THEN r
        ELSE IF r.type = "ExpiredSignatureError"
        THEN RaiseAuthError([code |-> "token_expired",
                             description |-> "Token expired."], 401)
        ELSE IF r.type = "JWTClaimsError"
        THEN RaiseAuthError([code |-> "invalid_claims",
                             description |-> "Incorrect claims. Please, check the audience and issuer."], 401)
        ELSE RaiseAuthError([code |-> "invalid_header",
                             description |-> "Unable to parse authentication token."], 400)

verify_decode_jwt(tok, fetched, keys) ==
    IF fetched \in FetchFailures THEN Raise(fetched)
    ELSE LET unverified_header == get_unverified_header(tok)
         IN  IF unverified_header.kind # "return" THEN unverified_header
             ELSE IF "kid" \notin DOMAIN unverified_header.value
             THEN RaiseAuthError([code |-> "invalid_header",
                                  description |-> "Authorization malformed."], 401)
             ELSE LET rsa_key == SelectKey(keys, unverified_header.value.kid)
                  IN  IF DOMAIN rsa_key # {}
                      THEN DecodeWithKey(tok, rsa_key)
                      ELSE RaiseAuthError([code |-> "invalid_header",
                                           description |-> "Unable to find the appropriate key."], 400)

----------------------------------------------------------------------------
(* auth.py: check_permissions *)

\* check_permissions without the membership test
check_permissions_any(perm, claims) ==
    IF "permissions" \notin DOMAIN claims
    THEN RaiseAuthError([code |-> "invalid_claims",
                         description |-> "Permissions not included in JWT"], 400)
    ELSE Return(TRUE)

\* check_permissions letting the empty permission string through
check_permissions_lenient(perm, claims) ==
    IF "permissions" \notin DOMAIN claims
    THEN RaiseAuthError([code |-> "invalid_claims",
                         description |-> "Permissions not included in JWT"], 400)
    ELSE IF perm # "" /\ perm \notin claims.permissions
    THEN RaiseAuthError([code |-> "unauthorized",
                         description |-> "Permission not found"], 403)
    ELSE Return(TRUE)

check_permissions(perm, claims) ==
    IF "permissions" \notin DOMAIN claims
    THEN RaiseAuthError([code |-> "invalid_claims",
                         description |-> "Permissions not included in JWT"], 400)
    ELSE IF perm \notin claims.permissions
    THEN RaiseAuthError([code |-> "unauthorized",
                         description |-> "Permission not found"], 403)
    ELSE Return(TRUE)

----------------------------------------------------------------------------
(* State before any request *)

NoToken == [unset |-> TRUE]
NoPayload == [unset |-> TRUE]
NoResponse == [status_code |-> 0, body |-> [unset |-> TRUE]]

Idle ==
    /\ pc = "idle"
    /\ route = "(none)"
    /\ permission = "(none)"
    /\ headers = NoAuthorization
    /\ pres = NotCalled
    /\ token = <<>>
    /\ fetch = "(none)"
    /\ jwks = <<>>
    /\ jwt = NoToken
    /\ vres = NotCalled
    /\ payload = NoPayload
    /\ cres = NotCalled
    /\ opCalls = 0
    /\ opArg = NoPayload
    /\ opResult = NotCalled
    /\ ret = NotCalled
    /\ response = NoResponse
    /\ drinks = {}
    /\ nextId = 1

----------------------------------------------------------------------------
(* get_token_auth_header on its own, over every header *)

ParserInit ==
    /\ headers \in AllHeaders
    /\ pc = "get_token_auth_header"
    /\ route = "(none)" /\ permission = "(none)" /\ pres = NotCalled /\ token = <<>>
    /\ fetch = "(none)" /\ jwks = <<>> /\ jwt = NoToken /\ vres = NotCalled
    /\ payload = NoPayload /\ cres = NotCalled /\ opCalls = 0 /\ opArg = NoPayload
    /\ opResult = NotCalled /\ ret = NotCalled /\ response = NoResponse
    /\ drinks = {} /\ nextId = 1

ParserCall ==
    /\ pc = "get_token_auth_header"
    /\ pres' = get_token_auth_header(headers)
    /\ pc' = "done"
    /\ UNCHANGED <<route, permission, headers, token, fetch, jwks, jwt, vres, payload,
                   cres, opCalls, opArg, opResult, ret, response, drinks, nextId>>

ParserSpec == ParserInit /\ [][ParserCall]_vars

----------------------------------------------------------------------------
(* verify_decode_jwt on its own, over every token, fetch outcome and key set *)

VerifyInit ==
    /\ jwt \in Tokens
    /\ \/ fetch = "ok" /\ jwks \in KeySets
       \/ fetch \in FetchFailures /\ jwks = <<>>
    /\ pc = "verify_decode_jwt"
    /\ route = "(none)" /\ permission = "(none)" /\ headers = NoAuthorization
    /\ pres = NotCalled /\ token = <<>> /\ vres = NotCalled
    /\ payload = NoPayload /\ cres = NotCalled /\ opCalls = 0 /\ opArg = NoPayload
    /\ opResult = NotCalled /\ ret = NotCalled /\ response = NoResponse
    /\ drinks = {} /\ nextId = 1

VerifyCall ==
    /\ pc = "verify_decode_jwt"
    /\ vres' = verify_decode_jwt(jwt, fetch, jwks)
    /\ pc' = "done"
    /\ UNCHANGED <<route, permission, headers, pres, token, fetch, jwks, jwt, payload,
                   cres, opCalls, opArg, opResult, ret, response, drinks, nextId>>

VerifySpec == VerifyInit /\ [][VerifyCall]_vars

----------------------------------------------------------------------------
(* check_permissions on its own, over every permission string and claim set *)

PermInit ==
    /\ permission \in PermissionNames \cup {"get:drinks"}
    /\ payload \in ClaimSets
    /\ pc = "check_permissions"
    /\ route = "(none)" /\ headers = NoAuthorization /\ pres = NotCalled /\ token = <<>>
    /\ fetch = "(none)" /\ jwks = <<>> /\ jwt = NoToken /\ vres = NotCalled
    /\ cres = NotCalled /\ opCalls = 0 /\ opArg = NoPayload
    /\ opResult = NotCalled /\ ret = NotCalled /\ response = NoResponse
    /\ drinks = {} /\ nextId = 1

PermCall ==
    /\ pc = "check_permissions"
    /\ cres' = check_permissions(permission, payload)
    /\ pc' = "done"
    /\ UNCHANGED <<route, permission, headers, pres, token, fetch, jwks, jwt, vres,
                   payload, opCalls, opArg, opResult, ret, response, drinks, nextId>>

PermSpec == PermInit /\ [][PermCall]_vars

----------------------------------------------------------------------------
(* api.py: error handlers, and Flask's handling of what a view raises *)

\* the pages werkzeug renders for an HTTPException no handler is registered for
DefaultPage(code) == [html |-> IF code = 401 THEN "Unauthorized" ELSE "Internal Server Error"]

\* the (body, status) a view returns, or the registered handler's answer to what it raised
Respond(outcome) ==
    CASE outcome.kind = "return" ->
            [status_code |-> outcome.value[2], body |-> outcome.value[1]]
      [] outcome.kind = "AuthError" ->
            \* handle_auth_error
            [status_code |-> outcome.status_code, body |-> outcome.error]
      [] outcome.kind = "HTTPException" /\ outcome.code = 422 ->
            [status_code |-> 422,
             body |-> [success |-> FALSE, error |-> 422, message |-> "unprocessable"]]
      [] outcome.kind = "HTTPException" /\ outcome.code = 404 ->
            [status_code |-> 404,
             body |-> [success |-> FALSE, error |-> 404, message |-> "resource not found"]]
      [] outcome.kind = "HTTPException" /\ outcome.code = 400 ->
            [status_code |-> 400,
             body |-> [success |-> FALSE, error |-> 400, message |-> "bad request"]]
      [] outcome.kind = "HTTPException" ->
            [status_code |-> outcome.code, body |-> DefaultPage(outcome.code)]
      [] OTHER ->
            [status_code |-> 500, body |-> DefaultPage(500)]

----------------------------------------------------------------------------
(* api.py: the drink endpoints *)

Titles == {"latte", "mocha"}
\* str(recipe) of the recipe a client sends
RecipeTexts == { <<"{", "'", "c", "'", "}">>, <<"{", "\"", "c", "\"", "}">> }

\* request.json: an object that may lack title, recipe or both
JsonBodies ==
    [sent : {TRUE}] \cup [sent : {TRUE}, title : Titles] \cup [sent : {TRUE}, recipe : RecipeTexts]
        \cup [sent : {TRUE}, title : Titles, recipe : RecipeTexts]

\* str.replace("'", "\"")
replace_quotes(s) == [i \in 1..Len(s) |-> IF s[i] = "'" THEN "\"" ELSE s[i]]

\* Drink.query.filter_by(id=id).one_or_none()
Found(table, id) == {d \in table : d.id = id}

\* what an endpoint did: its outcome and the table it leaves
Effect(outcome, table, nid) == [outcome |-> outcome, drinks |-> table, nextId |-> nid]

\* get_drinks(): the public list, no gate
get_drinks(table, nid) ==
    Effect(Return(<<[success |-> TRUE, drinks |-> {[id |-> d.id, title |-> d.title] : d \in table}], 200>>),
           table, nid)

get_drinks_detail(claims, table, nid) ==
    Effect(Return(<<[success |-> TRUE, drinks |-> table], 200>>), table, nid)

add_drink(claims, body, dataError, table, nid) ==
    IF "title" \notin DOMAIN body \/ "recipe" \notin DOMAIN body
    THEN Effect(abort(400), table, nid)
    ELSE IF dataError THEN Effect(abort(422), table, nid)
    ELSE LET drink == [id |-> nid, title |-> body.title, recipe |-> replace_quotes(body.recipe)]
         IN  Effect(Return(<<[success |-> TRUE, drinks |-> drink], 200>>),
                    table \cup {drink}, nid + 1)

update_drink(claims, id, body, dataError, table, nid) ==
    IF Found(table, id) = {} THEN Effect(abort(404), table, nid)
    ELSE IF "title" \notin DOMAIN body /\ "recipe" \notin DOMAIN body
    THEN Effect(abort(400), table, nid)
    ELSE IF dataError THEN Effect(abort(422), table, nid)
    ELSE LET old == CHOOSE d \in Found(table, id) : TRUE
             drink == [id |-> id,
                       title |-> IF "title" \in DOMAIN body THEN body.title ELSE old.title,
                       recipe |-> IF "recipe" \in DOMAIN body
                                  THEN replace_quotes(body.recipe) ELSE old.recipe]
         IN  Effect(Return(<<[success |-> TRUE, drinks |-> drink], 200>>),
                    (table \ {old}) \cup {drink}, nid)

delete_drink(claims, id, table, nid) ==
    IF Found(table, id) = {} THEN Effect(abort(404), table, nid)
    ELSE Effect(Return(<<[success |-> TRUE, delete |-> id], 200>>),
                table \ Found(table, id), nid)

\* @requires_auth(...) above each protected endpoint
ProtectedRoutes == {"get_drinks_detail", "add_drink", "update_drink", "delete_drink"}

RequiredPermission(r) ==
    CASE r = "get_drinks_detail" -> "get:drinks-detail"
      [] r = "add_drink" -> "post:drinks"
      [] r = "update_drink" -> "patch:drinks"
      [] r = "delete_drink" -> "delete:drinks"

\* f(payload, *args, **kwargs) for the endpoint r, on every request body and path id
Dispatches(r, claims, table, nid) ==
    CASE r = "get_drinks_detail" -> {get_drinks_detail(claims, table, nid)}
      [] r = "add_drink" ->
            {add_drink(claims, b, e, table, nid) : b \in JsonBodies, e \in BOOLEAN}
      [] r = "update_drink" ->
            {update_drink(claims, i, b, e, table, nid) :
                i \in 1..MaxId, b \in JsonBodies, e \in BOOLEAN}
      [] r = "delete_drink" -> {delete_drink(claims, i, table, nid) : i \in 1..MaxId}
      [] r = "protected" -> {Effect(Return(<<[success |-> TRUE], 200>>), table, nid)}

----------------------------------------------------------------------------
(* auth.py: requires_auth, one request at a time *)

\* Authorization headers of the requests sent to the endpoints
GateHeaderValues ==
    { <<>>,
      <<" ">>,
      bearer,
      Concat(<< <<"B", "a", "s", "i", "c">>, <<" ">>, <<"T", "k">> >>),
      Concat(<< bearer, <<" ">>, <<"T", "k">> >>),
      Concat(<< <<"B", "E", "a", "r", "e", "r">>, <<" ">>, <<"T", "k">> >>),
      Concat(<< bearer, <<" ">>, <<"T", "k">>, <<" ">>, <<"T", "k">> >>) }

GateHeaders == {NoAuthorization} \cup {WithAuthorization(v) : v \in GateHeaderValues}

\* every way verify_decode_jwt can go for a request: what the discovery URL
\* answers and what the bearer string decodes to are the environment's
VerifyRuns ==
    {[fetch |-> "ok", outcome |-> verify_decode_jwt(t, "ok", ks)] : t \in Tokens, ks \in KeySets}
        \cup {[fetch |-> f, outcome |-> verify_decode_jwt(t, f, <<>>)] : t \in Tokens, f \in FetchFailures}

\* except: raise
wrapper_except_reraise(raised) == raised

\* except: abort(401)
wrapper_except(raised) == abort(401)

\* the wrapper stops: what it raised goes to Flask
Fail(outcome) ==
    /\ ret' = outcome
    /\ response' = Respond(outcome)
    /\ pc' = "done"

Init == Idle

\* a request arrives for a protected endpoint: wrapper(*args, **kwargs) starts
Receive ==
    /\ pc \in {"idle", "done"}
    /\ route' \in ProtectedRoutes
    /\ permission' = RequiredPermission(route')
    /\ headers' \in GateHeaders
    /\ pc' = "get_token_auth_header"
    /\ pres' = NotCalled /\ token' = <<>> /\ fetch' = "(none)" /\ vres' = NotCalled
    /\ payload' = NoPayload /\ cres' = NotCalled /\ opCalls' = 0 /\ opArg' = NoPayload
    /\ opResult' = NotCalled /\ ret' = NotCalled /\ response' = NoResponse
    /\ UNCHANGED <<jwks, jwt, drinks, nextId>>

\* a request arrives for the public endpoint
PublicRequest ==
    /\ pc \in {"idle", "done"}
    /\ route' = "get_drinks"
    /\ permission' = "(none)"
    /\ headers' \in GateHeaders
    /\ LET done == get_drinks(drinks, nextId)
       IN  /\ ret' = done.outcome
           /\ response' = Respond(done.outcome)
    /\ pc' = "done"
    /\ pres' = NotCalled /\ token' = <<>> /\ fetch' = "(none)" /\ vres' = NotCalled
    /\ payload' = NoPayload /\ cres' = NotCalled /\ opCalls' = 0 /\ opArg' = NoPayload
    /\ opResult' = NotCalled
    /\ UNCHANGED <<jwks, jwt, drinks, nextId>>

\* token = get_token_auth_header()
GetToken ==
    /\ pc = "get_token_auth_header"
    /\ pres' = get_token_auth_header(headers)
    /\ IF pres'.kind = "return"
       THEN /\ token' = pres'.value
            /\ pc' = "verify_decode_jwt"
            /\ UNCHANGED <<ret, response>>
       ELSE /\ Fail(pres')
            /\ UNCHANGED token
    /\ UNCHANGED <<route, permission, headers, fetch, jwks, jwt, vres, payload, cres,
                   opCalls, opArg, opResult, drinks, nextId>>

\* try: payload = verify_decode_jwt(token)  except: abort(401)
Verify ==
    /\ pc = "verify_decode_jwt"
    /\ \E run \in VerifyRuns :
        /\ fetch' = run.fetch
        /\ vres' = run.outcome
    /\ IF vres'.kind = "return"
       THEN /\ payload' = vres'.value
            /\ pc' = "check_permissions"
            /\ UNCHANGED <<ret, response>>
       ELSE /\ Fail(wrapper_except(vres'))
            /\ UNCHANGED payload
    /\ UNCHANGED <<route, permission, headers, pres, token, jwks, jwt, cres,
                   opCalls, opArg, opResult, drinks, nextId>>

\* check_permissions(permission, payload)
Check ==
    /\ pc = "check_permissions"
    /\ cres' = check_permissions(permission, payload)
    /\ IF cres'.kind = "return"
       THEN /\ pc' = "f"
            /\ UNCHANGED <<ret, response>>
       ELSE Fail(cres')
    /\ UNCHANGED <<route, permission, headers, pres, token, fetch, jwks, jwt, vres,
                   payload, opCalls, opArg, opResult, drinks, nextId>>

\* return f(arg, *args, **kwargs), with f the endpoint the request was routed to
Invoke(arg) ==
    /\ pc = "f"
    /\ \E done \in Dispatches(route, arg, drinks, nextId) :
        /\ done.nextId <= MaxId + 1
        /\ opCalls' = opCalls + 1
        /\ opArg' = arg
        /\ opResult' = done.outcome
        /\ ret' = done.outcome
        /\ response' = Respond(done.outcome)
        /\ drinks' = done.drinks
        /\ nextId' = done.nextId
    /\ pc' = "done"
    /\ UNCHANGED <<route, permission, headers, pres, token, fetch, jwks, jwt, vres,
                   payload, cres>>

\* return f(*args, **kwargs): the claims are not handed over
Call_without_claims == Invoke(NoPayload)

\* return f(payload, *args, **kwargs)
Call == Invoke(payload)

Next == Receive \/ PublicRequest \/ GetToken \/ Verify \/ Check \/ Call

Spec == Init /\ [][Next]_vars

----------------------------------------------------------------------------
(* A gate created with the default, requires_auth(), around some function *)

ReceiveDefault ==
    /\ pc \in {"idle", "done"}
    /\ route' = "protected"
    /\ permission' = ""
    /\ headers' \in GateHeaders
    /\ pc' = "get_token_auth_header"
    /\ pres' = NotCalled /\ token' = <<>> /\ fetch' = "(none)" /\ vres' = NotCalled
    /\ payload' = NoPayload /\ cres' = NotCalled /\ opCalls' = 0 /\ opArg' = NoPayload
    /\ opResult' = NotCalled /\ ret' = NotCalled /\ response' = NoResponse
    /\ UNCHANGED <<jwks, jwt, drinks, nextId>>

DefaultGateNext == ReceiveDefault \/ GetToken \/ Verify \/ Check \/ Call

DefaultGateSpec == Init /\ [][DefaultGateNext]_vars

----------------------------------------------------------------------------
(* Properties *)

\* the three stages of the gate let the request through
Admitted ==
    /\ pres.kind = "return"
    /\ token = pres.value
    /\ vres.kind = "return"
    /\ payload = vres.value
    /\ "permissions" \in DOMAIN payload
    /\ permission \in payload.permissions
    /\ cres = Return(TRUE)

Ids(table) == {d.id : d \in table}

\* C1: a protected endpoint runs, and the Drink table changes, only in a
\* step taken by a request for which get_token_auth_header returned a token,
\* verify_decode_jwt returned the claim set and that claim set's permissions
\* hold the endpoint's permission; a request that ends otherwise ends with an
\* error, its endpoint not called; an insert needs post:drinks, an update
\* patch:drinks and a delete delete:drinks among the claim set's permissions.
C1_OnlyAdmittedRequestsRun ==
    [][ /\ (opCalls' > opCalls \/ drinks' # drinks \/ nextId' # nextId)
            => /\ Admitted
               /\ route \in ProtectedRoutes
               /\ permission = RequiredPermission(route)
        /\ (pc' = "done" /\ route' \in ProtectedRoutes /\ ~Admitted')
            => /\ opCalls' = 0
               /\ opResult' = NotCalled
               /\ ret'.kind \in {"AuthError", "HTTPException", "exception"}
               /\ response'.status_code \in {400, 401, 403, 500}
               /\ drinks' = drinks
        /\ (Ids(drinks') \ Ids(drinks) # {})
            => "permissions" \in DOMAIN payload /\ "post:drinks" \in payload.permissions
        /\ (Ids(drinks) \ Ids(drinks') # {})
            => "permissions" \in DOMAIN payload /\ "delete:drinks" \in payload.permissions
        /\ (Ids(drinks') = Ids(drinks) /\ drinks' # drinks)
            => "permissions" \in DOMAIN payload /\ "patch:drinks" \in payload.permissions
      ]_vars

\* C1 witness: an admitted POST /drinks has run and stored a drink.
C1_Witness ==
    /\ pc = "done" /\ route = "add_drink" /\ Admitted
    /\ opCalls = 1 /\ drinks # {} /\ response.status_code = 200

\* C2: when the token verified and the claim set's permissions hold the
\* required permission, the finished request has called the endpoint exactly
\* once, with the claim set verify_decode_jwt returned as first argument, and
\* the wrapper's outcome is the endpoint's outcome, unchanged.
C2_AdmittedCallsOnce ==
    /\ opCalls <= 1
    /\ (pc = "done" /\ route \in ProtectedRoutes /\ vres.kind = "return"
            /\ "permissions" \in DOMAIN vres.value
            /\ permission \in vres.value.permissions)
        => /\ opCalls = 1
           /\ opArg = vres.value
           /\ opResult # NotCalled
           /\ ret = opResult
           /\ response = Respond(opResult)

\* C2 witness: an admitted PATCH /drinks/<id> has answered 200.
C2_Witness ==
    /\ pc = "done" /\ route = "update_drink" /\ vres.kind = "return"
    /\ opCalls = 1 /\ ret.kind = "return" /\ response.status_code = 200

\* C3: through a gate created with the empty permission string, every
\* request whose token verifies and whose claim set has a permissions entry
\* reaches the protected function, whatever that entry holds.
C3_EmptyPermissionAdmitsAll ==
    (pc = "done" /\ permission = "" /\ vres.kind = "return"
        /\ "permissions" \in DOMAIN vres.value)
        => opCalls = 1 /\ ret.kind = "return"

\* C4: a request whose key fetch timed out or failed in transport ends with
\* the AuthError key_fetch_failed and status 503.
C4_KeyFetchFailureIs503 ==
    (pc = "done" /\ fetch \in FetchFailures)
        => /\ ret.kind = "AuthError"
           /\ ret.error.code = "key_fetch_failed"
           /\ ret.status_code = 503
           /\ response.status_code = 503

\* the answer to abort(401): no code, no description
Generic401 == [status_code |-> 401, body |-> DefaultPage(401)]

\* C5: whatever verify_decode_jwt raised, the request ends with the generic
\* 401, check_permissions and the endpoint not having run; an AuthError of
\* get_token_auth_header or check_permissions is answered with its own
\* payload and status code.
C5_VerifierFailuresCollapse ==
    /\ (pc = "done" /\ vres.kind \notin {"none", "return"})
        => /\ ret = abort(401)
           /\ response = Generic401
           /\ cres = NotCalled
           /\ opCalls = 0 /\ opResult = NotCalled
    /\ (pc = "done" /\ pres.kind = "AuthError")
        => /\ response = [status_code |-> pres.status_code, body |-> pres.error]
           /\ vres = NotCalled
    /\ (pc = "done" /\ cres.kind = "AuthError")
        => response = [status_code |-> cres.status_code, body |-> cres.error]

\* C5 witness: an invalid_header/400 of the verifier was answered.
C5_Witness ==
    /\ pc = "done" /\ vres.kind = "AuthError"
    /\ vres.error.code = "invalid_header" /\ vres.status_code = 400

\* the parts of the Authorization header, none when it is absent
HeaderParts == IF "Authorization" \in DOMAIN headers THEN split(headers.Authorization) ELSE <<>>

BearerAndToken == Len(HeaderParts) = 2 /\ lower(HeaderParts[1]) = bearer

\* C6: get_token_auth_header returns a token or raises an AuthError, nothing
\* else; it returns exactly when the header is two parts, the first "bearer"
\* in any case, and then returns the second part as it is.
C6_ParserTotal ==
    pc = "done"
        => /\ pres.kind \in {"return", "AuthError"}
           /\ (pres.kind = "return") <=> BearerAndToken
           /\ pres.kind = "return" => pres.value = HeaderParts[2]

\* C7: a header that is present with a scheme word other than "bearer", with
\* the scheme word alone or with more than two parts is refused with code
\* invalid_header and status 401; a request without the header with
\* authorization_header_missing and 401.
C7_ParserErrorCodes ==
    pc = "done"
        => /\ "Authorization" \notin DOMAIN headers
                => /\ pres.kind = "AuthError"
                   /\ pres.error.code = "authorization_header_missing"
                   /\ pres.status_code = 401
           /\ (Len(HeaderParts) >= 1 /\ ~BearerAndToken)
                => /\ pres.kind = "AuthError"
                   /\ pres.error.code = "invalid_header"
                   /\ pres.status_code = 401

\* C8: check_permissions fails invalid_claims/400 when the claim set has no
\* permissions entry, whatever the permission; else unauthorized/403 when no
\* element of the entry equals the permission; else returns True; and it
\* leaves the claim set and the permission as they were.
C8_CheckPermissionsReference ==
    [][ pc' = "done"
            => /\ payload' = payload /\ permission' = permission
               /\ IF "permissions" \notin DOMAIN payload
                  THEN /\ cres'.kind = "AuthError"
                       /\ cres'.error.code = "invalid_claims"
                       /\ cres'.status_code = 400
                  ELSE IF \A p \in payload.permissions : p # permission
                  THEN /\ cres'.kind = "AuthError"
                       /\ cres'.error.code = "unauthorized"
                       /\ cres'.status_code = 403
                  ELSE cres' = Return(TRUE)
      ]_vars

\* C8 witness: the empty permission was refused 403 on a claim set whose
\* permissions entry does not hold the empty string.
C8_Witness ==
    /\ pc = "done" /\ permission = "" /\ "permissions" \in DOMAIN payload
    /\ payload.permissions # {}
    /\ cres.kind = "AuthError" /\ cres.status_code = 403

\* C9: with the key set fetched, verify_decode_jwt returns the claim set or
\* raises an AuthError, nothing else; a token without kid fails
\* invalid_header/401, a token that cannot be parsed invalid_header/400.
C9_VerifierTotal ==
    (pc = "done" /\ fetch = "ok")
        => /\ vres.kind \in {"return", "AuthError"}
           /\ (vres.kind = "return" => vres.value = jwt.claims)
           /\ (~jwt.headerOk \/ (jwt.headerOk /\ jwt.claims = MalformedClaims
                                    /\ "kid" \in DOMAIN jwt.header))
                => /\ vres.kind = "AuthError"
                   /\ vres.error.code = "invalid_header"
                   /\ vres.status_code = 400
           /\ (jwt.headerOk /\ "kid" \notin DOMAIN jwt.header)
                => /\ vres.kind = "AuthError"
                   /\ vres.error.code = "invalid_header"
                   /\ vres.status_code = 401

\* positions of the fetched keys whose kid is the token's
Matching == {i \in 1..Len(jwks) : jwks[i].kid = jwt.header.kid}

\* C10: the key the signature is verified with is the last fetched key whose
\* kid is the token's; with no such key the call fails invalid_header/400,
\* "Unable to find the appropriate key", whatever the signature and the
\* claims are.
C10_LastMatchingKeyWins ==
    (pc = "done" /\ fetch = "ok" /\ jwt.headerOk /\ "kid" \in DOMAIN jwt.header)
        => IF Matching = {}
           THEN vres = RaiseAuthError([code |-> "invalid_header",
                                       description |-> "Unable to find the appropriate key."], 400)
           ELSE LET last == jwks[CHOOSE i \in Matching : \A j \in Matching : j <= i]
                IN  /\ vres = DecodeWithKey(jwt, last)
                    /\ vres.kind = "return" => jwt.signer = last.n
                    /\ jwt.signer # last.n
                        => /\ vres.kind = "AuthError"
                           /\ vres.error.description = "Unable to parse authentication token."

\* C10 witness: two fetched keys share the token's kid, their moduli differ,
\* and the token, signed for the second, verified.
C10_Witness ==
    /\ pc = "done" /\ fetch = "ok" /\ jwt.headerOk /\ "kid" \in DOMAIN jwt.header
    /\ Len(jwks) = 2 /\ jwks[1].kid = jwt.header.kid /\ jwks[2].kid = jwt.header.kid
    /\ jwks[1].n # jwks[2].n
    /\ vres.kind = "return"

====
